---- MODULE Spec2Model ----
(***************************************************************************)
(* Smart table tennis bat: the classification sketch                       *)
(* (src/unnamed/part_000: sliding window with half-window hop, decision    *)
(* gate, stroke counters, OPENING/MAIN/FLASH/IDLE presentation states)     *)
(* and the data-collection sketch                                          *)
(* (src/table-tennis-data-collection-bluetooth.ino: circular buffer,       *)
(* swing trigger, capture and transmission over Bluetooth).  The two are   *)
(* separate programs: each specification runs one of them and leaves the   *)
(* variables of the other at their initial values.                         *)
(*                                                                         *)
(* One state of the model is the state of the sketch between two passes of *)
(* loop().  Setup is setup(); LoopMain, LoopFlash and LoopIdle are one     *)
(* whole pass of loop() taken in the respective presentation state.        *)
(*                                                                         *)
(* Numbers.  Floats are fixed point: a confidence is in hundredths         *)
(* (0.50f is 50), an acceleration reading is in whole g, and               *)
(* CONVERT_G_TO_MS2 is in thousandths (9.80665f is 9807), so a stored      *)
(* acceleration is in mm/s^2.  uint16_t and uint8_t variables wrap         *)
(* (% 65536, % 256).  millis() is a uint32_t; the model never runs for     *)
(* 2^32 ms, so now - last needs no wrap.                                   *)
(*                                                                         *)
(* Specifications.  Spec runs the program from startup with millis() read  *)
(* where a time condition turns true.  SpecBoundary also reads it one      *)
(* millisecond before the idle timeout and the flash duration.  SpecRing   *)
(* feeds numbered samples at rest, at 2 g and above 2 g.  SpecLong         *)
(* continues a session in which the counters and cursors are about to      *)
(* wrap.  All four take the same passes of loop().  SpecCollector runs the *)
(* data-collection sketch from startup, one sample interval per pass.      *)
(***************************************************************************)
EXTENDS Integers, Sequences, FiniteSets, TLC

(***************************************************************************)
(* Program constants (part_000 lines 20-37)                                *)
(***************************************************************************)
SAMPLE_INTERVAL_MS == 20
CONF_THRESH == 50
ACCEL_THRESH_G == 2
FLASH_DURATION_MS == 3000
IDLE_TIMEOUT_MS == 10000
ANIM_INTERVAL_MS == 200
CONVERT_G_TO_MS2 == 9807
EI_CLASSIFIER_LABEL_COUNT == 6
AXIS_COUNT == 6
ENC_COUNT == 2
PLAY_ANIM_FRAMES == 4

\* The window length comes from the generated classifier library
\* (EI_CLASSIFIER_DSP_INPUT_FRAME_SIZE / EI_CLASSIFIER_RAW_SAMPLES_PER_FRAME),
\* which is not part of the repository: it is a parameter of the model.
WINDOW_SAMPLES == 3

HOP_SAMPLES == (WINDOW_SAMPLES + 1) \div 2

WINDOW_SIZE == WINDOW_SAMPLES * AXIS_COUNT

IDLE_LABEL_INDEX == EI_CLASSIFIER_LABEL_COUNT - 1

STATE_OPENING == "OPENING"
STATE_MAIN == "MAIN"
STATE_FLASH == "FLASH"
STATE_IDLE == "IDLE"

State == {STATE_OPENING, STATE_MAIN, STATE_FLASH, STATE_IDLE}

\* The label indices of the classifier and the five stroke categories.
Labels == 0 .. (EI_CLASSIFIER_LABEL_COUNT - 1)

Categories == 0 .. 4

(***************************************************************************)
(* Bounds of the model                                                     *)
(***************************************************************************)
\* Number of loop passes in which millis() has advanced since the last pass.
MaxTicks == 6

(***************************************************************************)
(* Inputs of a pass                                                        *)
(***************************************************************************)
\* What the IMU offers at a sampling tick: availability and value (in g for
\* the accelerometer, in deg/s for the gyroscope) of each of the two sensors.
NoReading ==
  [accAvail |-> FALSE, ax |-> 0, ay |-> 0, az |-> 0,
   gyrAvail |-> FALSE, gx |-> 0, gy |-> 0, gz |-> 0]

Swing ==
  [accAvail |-> TRUE, ax |-> 2, ay |-> 1, az |-> 0,
   gyrAvail |-> TRUE, gx |-> 300, gy |-> 0, gz |-> 0]

Readings == {NoReading, Swing}

\* A classification vector with value c at label k and a low value elsewhere.
Peak(k, c) == [i \in Labels |-> IF i = k THEN c ELSE 10]

\* What the classifier library does with a frame: signal_from_buffer fails,
\* run_classifier fails, or run_classifier fills res.classification.
Outcomes ==
  {[status |-> "signal_error", classification |-> Peak(0, 10)],
   [status |-> "classifier_error", classification |-> Peak(0, 10)],
   [status |-> "ok", classification |-> Peak(0, CONF_THRESH)]}
  \cup {[status |-> "ok", classification |-> Peak(k, CONF_THRESH + 1)] :
          k \in {0, 4, IDLE_LABEL_INDEX}}

(***************************************************************************)
(* The data-collection sketch                                              *)
(* (src/table-tennis-data-collection-bluetooth.ino lines 1-272):           *)
(* constants of lines 27-40.  SAMPLE_INTERVAL_MS is 20 in both sketches.   *)
(* Accelerations are in whole g, angular rates in whole degrees/second.    *)
(***************************************************************************)
PRE_TRIGGER_MS == 100
POST_TRIGGER_MS == 400
TOTAL_WINDOW_MS == 500

PRE_TRIGGER_SAMPLES == PRE_TRIGGER_MS \div SAMPLE_INTERVAL_MS

POST_TRIGGER_SAMPLES == POST_TRIGGER_MS \div SAMPLE_INTERVAL_MS

TOTAL_SAMPLES == TOTAL_WINDOW_MS \div SAMPLE_INTERVAL_MS

ACCEL_THRESHOLD == 2
GYRO_THRESHOLD == 200
COOLDOWN_MS == 200

\* Line 156: the display is updated every 500 ms.
DISPLAY_INTERVAL_MS == 500

\* Lines 212 and 233: delay(5) after the header, delay(2) after each line.
HEADER_DELAY_MS == 5
LINE_DELAY_MS == 2

\* Bounds of the model, all counted since startup: samples stored, samples
\* stored before the first connection, connections made, and sample passes
\* that read nothing or that end, after the first connection, with no
\* capture in progress (nothing pending, or not connected).
MaxCollected == 47
MaxWaiting == 6
MaxConnections == 2
MaxIdle == 2

(***************************************************************************)
(* State                                                                   *)
(***************************************************************************)
VARIABLES
  currentState,    \* State currentState
  imuBuffer,       \* BufferRow imuBuffer[WINDOW_SAMPLES], rows indexed 0..W-1
  bufIndex,        \* uint16_t bufIndex: the write cursor
  sampleCount,     \* uint16_t sampleCount: counts until window full
  sampleCounter,   \* uint16_t sampleCounter: counts since last inference
  countBHdrive, countBHsmash, countFHdrive, countFHloop, countFHsmash,
  totalStrokes,    \* uint16_t counters
  lastIMUread, lastDisplay, lastIdleAnim, lastStrokeTime, flashStart,
  encIndex,        \* uint8_t encIndex[5]
  display,         \* what the OLED shows: the last render command issued
  now,             \* millis() as read by the latest pass (or by setup)
  ticks,           \* history: passes in which millis() had advanced
  pushes,          \* history: rows written by readIMU since startup
  attempts,        \* history: calls of runInference since startup
  attemptAt,       \* history: value of pushes at the latest call
  pass             \* history: what the latest pass of loop() did

batVars ==
  <<currentState, imuBuffer, bufIndex, sampleCount, sampleCounter,
    countBHdrive, countBHsmash, countFHdrive, countFHloop, countFHsmash,
    totalStrokes, lastIMUread, lastDisplay, lastIdleAnim, lastStrokeTime,
    flashStart, encIndex, display, now, ticks, pushes, attempts,
    attemptAt, pass>>

\* The globals of the data-collection sketch (lines 50-70).
VARIABLES
  started,           \* whether setup() has run
  millis,            \* millis() as the latest pass of loop() left it
  bleConnected,      \* bool bleConnected
  circularBuffer,    \* IMUData circularBuffer[TOTAL_SAMPLES]; a sample is
                     \* held as its number since startup, 0 if none
  bufferIndex,       \* int bufferIndex
  bufferFull,        \* bool bufferFull
  swingDetected,     \* bool swingDetected
  triggerIndex,      \* int triggerIndex
  lastSwingTime,     \* unsigned long lastSwingTime
  triggerTime,       \* unsigned long triggerTime
  swingCount,        \* int swingCount
  sessionStartTime,  \* unsigned long sessionStartTime
  lastSampleTime,    \* unsigned long lastSampleTime
  lastDisplayUpdate, \* unsigned long lastDisplayUpdate
  oled,              \* what updateDisplay() last drew
  collected,         \* history: samples stored since startup
  connections,       \* history: connections made since startup
  idle,              \* history: sample passes with no capture in progress
  trigger,           \* history: the latest trigger
  step               \* history: what the latest pass of loop() did

collectorVars ==
  <<started, millis, bleConnected, circularBuffer, bufferIndex, bufferFull,
    swingDetected, triggerIndex, lastSwingTime, triggerTime, swingCount,
    sessionStartTime, lastSampleTime, lastDisplayUpdate, oled, collected,
    connections, idle, trigger, step>>

vars == <<batVars, collectorVars>>


(***************************************************************************)
(* Integer widths                                                          *)
(***************************************************************************)
U16(n) == n % 65536

U8(n) == n % 256

\* now - last on uint32_t values (no wrap within the model's horizon).
Elapsed(t, last) == t - last

(***************************************************************************)
(* readIMU (lines 81-92)                                                   *)
(***************************************************************************)
\* loop line 155: a sample is due.
\* Mutant: a sample is due only after more than the sampling interval.
SampleDue_Late(t, last) == Elapsed(t, last) > SAMPLE_INTERVAL_MS

SampleDue(t, last) == Elapsed(t, last) >= SAMPLE_INTERVAL_MS

\* Lines 82-88: the row written for a reading.  A sensor that has nothing
\* available leaves its three locals at their initial 0.
Row(rd) ==
  LET ax == IF rd.accAvail THEN rd.ax ELSE 0
      ay == IF rd.accAvail THEN rd.ay ELSE 0
      az == IF rd.accAvail THEN rd.az ELSE 0
      gx == IF rd.gyrAvail THEN rd.gx ELSE 0
      gy == IF rd.gyrAvail THEN rd.gy ELSE 0
      gz == IF rd.gyrAvail THEN rd.gz ELSE 0
  IN  [j \in 0 .. (AXIS_COUNT - 1) |->
         CASE j = 0 -> ax * CONVERT_G_TO_MS2
           [] j = 1 -> ay * CONVERT_G_TO_MS2
           [] j = 2 -> az * CONVERT_G_TO_MS2
           [] j = 3 -> gx
           [] j = 4 -> gy
           [] OTHER -> gz]

ZeroRow == [j \in 0 .. (AXIS_COUNT - 1) |-> 0]

\* Lines 86-88: imuBuffer[bufIndex] = row.
WriteRow(buf, idx, row) == [buf EXCEPT ![idx] = row]

\* Line 89.
\* Mutant: the cursor advances without wrapping.
NextIndex_NoWrap(idx) == idx + 1

NextIndex(idx) == (idx + 1) % WINDOW_SAMPLES

\* Line 90.
Fill(cnt) == IF cnt < WINDOW_SAMPLES THEN U16(cnt + 1) ELSE cnt

\* Line 91.
Tick(pending) == U16(pending + 1)

(***************************************************************************)
(* runInference (lines 94-108)                                             *)
(***************************************************************************)
\* Lines 96-99: the frame handed to the classifier, row i of the frame being
\* imuBuffer[(bufIndex + i) % WINDOW_SAMPLES].
\* Mutant: the frame is the buffer in slot order.
Frame_SlotOrder(buf, idx) == [i \in 0 .. (WINDOW_SAMPLES - 1) |-> buf[i]]

Frame(buf, idx) ==
  [i \in 0 .. (WINDOW_SAMPLES - 1) |-> buf[(idx + i) % WINDOW_SAMPLES]]

\* Lines 104-106: first index of the largest value.
RECURSIVE ArgMax(_, _, _)
ArgMax(cl, best, i) ==
  IF i >= EI_CLASSIFIER_LABEL_COUNT THEN best
  ELSE ArgMax(cl, IF cl[i] > cl[best] THEN i ELSE best, i + 1)

\* Lines 101 and 103: the value returned when the library reports an error.
\* Mutant: an error is reported with the confidence of a sure result.
FailureResult_Confident == [index |-> 0, confidence |-> 100]

FailureResult == [index |-> 0, confidence |-> 0]

runInference(out) ==
  IF out.status = "signal_error" THEN FailureResult
  ELSE IF out.status = "classifier_error" THEN FailureResult
  ELSE LET best == ArgMax(out.classification, 0, 1)
       IN  [index |-> best, confidence |-> out.classification[best]]

(***************************************************************************)
(* accelAboveThreshold (lines 71-79)                                       *)
(***************************************************************************)
Thr2 ==
  LET thr == ACCEL_THRESH_G * CONVERT_G_TO_MS2 IN thr * thr

SquaredAccel(row) == row[0] * row[0] + row[1] * row[1] + row[2] * row[2]

\* Mutant: a sample exactly at the threshold passes.
accelAboveThreshold_NonStrict(buf) ==
  \E i \in 0 .. (WINDOW_SAMPLES - 1) : SquaredAccel(buf[i]) >= Thr2

accelAboveThreshold(buf) ==
  \E i \in 0 .. (WINDOW_SAMPLES - 1) : SquaredAccel(buf[i]) > Thr2

(***************************************************************************)
(* loop: hop scheduler and decision gate (lines 158-161, 171-174, 184-187) *)
(***************************************************************************)
\* Mutant: the hop trigger without the test that the window is full.
HopReady_NoFillCheck(cnt, pending) == pending >= HOP_SAMPLES

HopReady(cnt, pending) == cnt >= WINDOW_SAMPLES /\ pending >= HOP_SAMPLES

\* Mutant: the pending count is zeroed, dropping the leftover.
Consume_Zero(pending) == 0

\* Mutant: the pending count is decremented instead of lowered by the hop.
Consume_Decrement(pending) == U16(pending - 1)

Consume(pending) == U16(pending - HOP_SAMPLES)

\* Mutant: a confidence equal to the threshold passes.
Accept_NonStrict(inf, buf) ==
  /\ inf.confidence >= CONF_THRESH
  /\ inf.index < IDLE_LABEL_INDEX
  /\ accelAboveThreshold(buf)

Accept(inf, buf) ==
  /\ inf.confidence > CONF_THRESH
  /\ inf.index < IDLE_LABEL_INDEX
  /\ accelAboveThreshold(buf)

(***************************************************************************)
(* Aggregator: the switch on inf.index                                     *)
(***************************************************************************)
\* Value after the switch of line 162 (MAIN) of the counter of category k
\* whose value was c.  The switch reads
\*   switch(inf.index){case 0:countBHdrive++;break;case1:countBHsmash++;...}
\* and only "case 0:" is a case label: case1, case2, case3 and case4 are
\* ordinary statement labels, whose statements follow a break and are not
\* reached for any value of inf.index.
SwitchMain(k, index, c) == IF index = 0 /\ k = 0 THEN U16(c + 1) ELSE c

\* Lines 175 (FLASH) and 188 (IDLE): the switch has no case label at all
\* (case0, case1, ... are statement labels), so its body is never entered.
SwitchFlash(k, index, c) == c

SwitchIdle(k, index, c) == c

\* Lines 163, 176, 189: totalStrokes++.
\* Mutant: the counter stays at its largest value instead of wrapping.
CountTotal_Saturating(c) == IF c = 65535 THEN c ELSE c + 1

CountTotal(c) == U16(c + 1)

(***************************************************************************)
(* Render commands: drawMainScreen, drawFlash, drawIdle, playAnim          *)
(***************************************************************************)
\* drawMainScreen (lines 110-125) prints the five counters and the total.
RenderCounters(bhd, bhs, fhd, fhl, fhs, total) ==
  [cmd |-> "counters", a |-> <<bhd, bhs, fhd, fhl, fhs>>, b |-> total]

\* drawFlash (line 129): m = encIndex[idx]++ % encCount[idx].
MessageIndex(cursor) == cursor % ENC_COUNT

\* Mutant: every cursor advances.
AdvanceCursor_All(enc, idx) == [k \in Categories |-> U8(enc[k] + 1)]

AdvanceCursor(enc, idx) == [enc EXCEPT ![idx] = U8(@ + 1)]

RenderFlash(enc, idx) ==
  [cmd |-> "flash", a |-> <<idx>>, b |-> MessageIndex(enc[idx])]

\* drawIdle (lines 133-141): up = ((millis()-lastIdleAnim)/ANIM_INTERVAL_MS)&1,
\* m being millis() as drawIdle reads it.
IdlePhase(m, last) == (Elapsed(m, last) \div ANIM_INTERVAL_MS) % 2

RenderIdle(m, last) == [cmd |-> "idle", a |-> <<>>, b |-> IdlePhase(m, last)]

\* playAnim (line 143): the frame left on the screen is frame f = 3.
RenderIntro == [cmd |-> "intro", a |-> <<>>, b |-> (PLAY_ANIM_FRAMES - 1) % 2]

Blank == [cmd |-> "blank", a |-> <<>>, b |-> 0]

(***************************************************************************)
(* Presentation state machine (lines 163-167, 179, 183, 189)               *)
(***************************************************************************)
\* Line 166.
\* Mutant: the idle timeout needs more than IDLE_TIMEOUT_MS.
IdleTimedOut_Strict(t, lastStroke) == Elapsed(t, lastStroke) > IDLE_TIMEOUT_MS

IdleTimedOut(t, lastStroke) == Elapsed(t, lastStroke) >= IDLE_TIMEOUT_MS

\* Lines 167 and 183.
RedrawDue(t, last) == Elapsed(t, last) >= ANIM_INTERVAL_MS

\* Line 179, evaluated after line 176 has possibly restarted flashStart.
\* Mutant: the flash is over as soon as it has begun.
FlashExpired_AtOnce(t, start) == Elapsed(t, start) >= 0

\* Mutant: the flash lasts one millisecond too long.
FlashExpired_Late(t, start) == Elapsed(t, start) > FLASH_DURATION_MS

FlashExpired(t, start) == Elapsed(t, start) >= FLASH_DURATION_MS

\* State at the end of a pass that began in MAIN: line 163 sets FLASH on an
\* accepted result, then line 166 sets IDLE when the idle timeout has passed.
MainNextState(accepted, timedOut) ==
  IF timedOut THEN STATE_IDLE
  ELSE IF accepted THEN STATE_FLASH
  ELSE STATE_MAIN

\* Line 179.
\* Mutant: an expired flash gives way to the idle screen.
FlashNextState_ToIdle(expired) == IF expired THEN STATE_IDLE ELSE STATE_FLASH

FlashNextState(expired) == IF expired THEN STATE_MAIN ELSE STATE_FLASH

\* Line 189.
\* Mutant: an acceptance in IDLE goes back to the counters.
IdleNextState_ToMain(accepted) == IF accepted THEN STATE_MAIN ELSE STATE_IDLE

IdleNextState(accepted) == IF accepted THEN STATE_FLASH ELSE STATE_IDLE

(***************************************************************************)
(* Initial state: the globals as initialised (lines 40-65)                 *)
(***************************************************************************)
NoInference == [index |-> 0, confidence |-> 0]

NoPass ==
  [state |-> STATE_OPENING, sampled |-> FALSE, reading |-> NoReading,
   inferred |-> FALSE, status |-> "none", inf |-> NoInference,
   frame |-> <<>>, plausible |-> FALSE, accepted |-> FALSE, flashAge |-> 0,
   flashSince |-> -1, lastMsg |-> [k \in Categories |-> -1],
   renders |-> <<>>]

\* The data-collection sketch before setup(): its globals as initialised
\* (lines 50-70), nothing drawn, nothing read.
NoMotion == [available |-> FALSE, acc |-> <<0, 0, 0>>, gyr |-> <<0, 0, 0>>]

NoScreen == [screen |-> "none", swings |-> 0, seconds |-> 0, capturing |-> FALSE]

NoTrigger == [sample |-> 0, connection |-> 0, time |-> 0]

NoStep ==
  [time |-> 0, sampled |-> FALSE, motion |-> NoMotion, connected |-> FALSE,
   disconnected |-> FALSE, triggered |-> FALSE, transmitted |-> FALSE,
   nth |-> 0, sent |-> <<>>]

CollectorGlobals ==
  /\ started = FALSE
  /\ millis = 0
  /\ bleConnected = FALSE
  /\ circularBuffer = [i \in 0 .. (TOTAL_SAMPLES - 1) |-> 0]
  /\ bufferIndex = 0
  /\ bufferFull = FALSE
  /\ swingDetected = FALSE
  /\ triggerIndex = -1
  /\ lastSwingTime = 0
  /\ triggerTime = 0
  /\ swingCount = 0
  /\ sessionStartTime = 0
  /\ lastSampleTime = 0
  /\ lastDisplayUpdate = 0
  /\ oled = NoScreen
  /\ collected = 0
  /\ connections = 0
  /\ idle = 0
  /\ trigger = NoTrigger
  /\ step = NoStep

Init ==
  /\ CollectorGlobals
  /\ currentState = STATE_OPENING
  /\ imuBuffer = [i \in 0 .. (WINDOW_SAMPLES - 1) |-> ZeroRow]
  /\ bufIndex = 0
  /\ sampleCount = 0
  /\ sampleCounter = 0
  /\ countBHdrive = 0
  /\ countBHsmash = 0
  /\ countFHdrive = 0
  /\ countFHloop = 0
  /\ countFHsmash = 0
  /\ totalStrokes = 0
  /\ lastIMUread = 0
  /\ lastDisplay = 0
  /\ lastIdleAnim = 0
  /\ lastStrokeTime = 0
  /\ flashStart = 0
  /\ encIndex = [k \in Categories |-> 0]
  /\ display = Blank
  /\ now = 0
  /\ ticks = 0
  /\ pushes = 0
  /\ attempts = 0
  /\ attemptAt = 0
  /\ pass = NoPass

(***************************************************************************)
(* setup (lines 145-152)                                                   *)
(***************************************************************************)
\* playAnim shows PLAY_ANIM_FRAMES frames with delay(ANIM_INTERVAL_MS) after
\* each; the four timers are then set to millis() and the state to MAIN.
Setup ==
  /\ currentState = STATE_OPENING
  /\ now' = now + PLAY_ANIM_FRAMES * ANIM_INTERVAL_MS
  /\ display' = RenderIntro
  /\ lastIMUread' = now'
  /\ lastDisplay' = now'
  /\ lastIdleAnim' = now'
  /\ lastStrokeTime' = now'
  /\ currentState' = STATE_MAIN
  /\ UNCHANGED <<imuBuffer, bufIndex, sampleCount, sampleCounter,
                 countBHdrive, countBHsmash, countFHdrive, countFHloop,
                 countFHsmash, totalStrokes, flashStart, encIndex, ticks,
                 pushes, attempts, attemptAt, pass>>
  /\ UNCHANGED collectorVars

(***************************************************************************)
(* loop (lines 154-198)                                                    *)
(***************************************************************************)
\* Line 154: now = millis(), which reads t.
Clock(t) ==
  /\ t >= now
  /\ t > now => ticks < MaxTicks
  /\ now' = t
  /\ ticks' = IF t > now THEN ticks + 1 ELSE ticks

\* Line 155: if(now-lastIMUread>=SAMPLE_INTERVAL_MS){lastIMUread=now; readIMU();}
\* and the hop trigger that opens each case of the switch (lines 158-160,
\* 171-173, 184-186): sampleCounter-=HOP_SAMPLES; inf=runInference().
Pipeline(t, rd) ==
  LET due == SampleDue(t, lastIMUread)
      pending == IF due THEN Tick(sampleCounter) ELSE sampleCounter
  IN  /\ lastIMUread' = IF due THEN t ELSE lastIMUread
      /\ imuBuffer' = IF due THEN WriteRow(imuBuffer, bufIndex, Row(rd))
                      ELSE imuBuffer
      /\ bufIndex' = IF due THEN NextIndex(bufIndex) ELSE bufIndex
      /\ sampleCount' = IF due THEN Fill(sampleCount) ELSE sampleCount
      /\ pushes' = IF due THEN pushes + 1 ELSE pushes
      /\ sampleCounter' = IF HopReady(sampleCount', pending)
                          THEN Consume(pending) ELSE pending
      /\ attempts' = IF HopReady(sampleCount', pending)
                     THEN attempts + 1 ELSE attempts
      /\ attemptAt' = IF HopReady(sampleCount', pending)
                      THEN pushes' ELSE attemptAt

\* Whether this pass calls runInference, and whether its result is accepted.
Inferred == attempts' # attempts

Accepted(out) == Inferred /\ Accept(runInference(out), imuBuffer')

\* The counters as drawMainScreen prints them at the end of the pass.
CountersNow ==
  RenderCounters(countBHdrive', countBHsmash', countFHdrive', countFHloop',
                 countFHsmash', totalStrokes')

\* The screen after the render commands of a pass.
Shown(renders) == IF renders = <<>> THEN display ELSE renders[Len(renders)]

\* Lines 157-168, case STATE_MAIN.
MainRenders(t, out) ==
  (IF Accepted(out)
   THEN <<RenderFlash(encIndex, runInference(out).index)>> ELSE <<>>)
  \o (IF RedrawDue(t, lastDisplay) THEN <<CountersNow>> ELSE <<>>)

MainPass(t, rd, out) ==
  /\ currentState = STATE_MAIN
  /\ Clock(t)
  /\ Pipeline(t, rd)
  /\ LET acc == Accepted(out)
         idx == runInference(out).index
         timedOut == IdleTimedOut(t, lastStrokeTime)
     IN  /\ countBHdrive' = IF acc THEN SwitchMain(0, idx, countBHdrive) ELSE countBHdrive
         /\ countBHsmash' = IF acc THEN SwitchMain(1, idx, countBHsmash) ELSE countBHsmash
         /\ countFHdrive' = IF acc THEN SwitchMain(2, idx, countFHdrive) ELSE countFHdrive
         /\ countFHloop' = IF acc THEN SwitchMain(3, idx, countFHloop) ELSE countFHloop
         /\ countFHsmash' = IF acc THEN SwitchMain(4, idx, countFHsmash) ELSE countFHsmash
         /\ totalStrokes' = IF acc THEN CountTotal(totalStrokes) ELSE totalStrokes
         /\ flashStart' = IF acc THEN t ELSE flashStart
         /\ encIndex' = IF acc THEN AdvanceCursor(encIndex, idx) ELSE encIndex
         /\ currentState' = MainNextState(acc, timedOut)
         /\ lastIdleAnim' = IF timedOut THEN t ELSE lastIdleAnim
         /\ lastDisplay' = IF RedrawDue(t, lastDisplay) THEN t ELSE lastDisplay
         /\ display' = Shown(MainRenders(t, out))
  /\ UNCHANGED lastStrokeTime

\* Lines 170-180, case STATE_FLASH.
FlashRenders(t, out) ==
  (IF Accepted(out)
   THEN <<RenderFlash(encIndex, runInference(out).index)>> ELSE <<>>)
  \o (IF FlashExpired(t, flashStart') THEN <<CountersNow>> ELSE <<>>)

FlashPass(t, rd, out) ==
  /\ currentState = STATE_FLASH
  /\ Clock(t)
  /\ Pipeline(t, rd)
  /\ LET acc == Accepted(out)
         idx == runInference(out).index
     IN  /\ countBHdrive' = IF acc THEN SwitchFlash(0, idx, countBHdrive) ELSE countBHdrive
         /\ countBHsmash' = IF acc THEN SwitchFlash(1, idx, countBHsmash) ELSE countBHsmash
         /\ countFHdrive' = IF acc THEN SwitchFlash(2, idx, countFHdrive) ELSE countFHdrive
         /\ countFHloop' = IF acc THEN SwitchFlash(3, idx, countFHloop) ELSE countFHloop
         /\ countFHsmash' = IF acc THEN SwitchFlash(4, idx, countFHsmash) ELSE countFHsmash
         /\ totalStrokes' = IF acc THEN CountTotal(totalStrokes) ELSE totalStrokes
         /\ flashStart' = IF acc THEN t ELSE flashStart
         /\ encIndex' = IF acc THEN AdvanceCursor(encIndex, idx) ELSE encIndex
         /\ LET expired == FlashExpired(t, flashStart')
            IN  /\ lastDisplay' = IF expired THEN t ELSE lastDisplay
                /\ lastStrokeTime' = IF expired THEN t ELSE lastStrokeTime
                /\ currentState' = FlashNextState(expired)
         /\ display' = Shown(FlashRenders(t, out))
  /\ UNCHANGED lastIdleAnim

\* Lines 182-192, case STATE_IDLE.
IdleRenders(t, out) ==
  (IF RedrawDue(t, lastIdleAnim) THEN <<RenderIdle(t, lastIdleAnim')>> ELSE <<>>)
  \o (IF Accepted(out)
      THEN <<RenderFlash(encIndex, runInference(out).index)>> ELSE <<>>)

IdlePass(t, rd, out) ==
  /\ currentState = STATE_IDLE
  /\ Clock(t)
  /\ Pipeline(t, rd)
  /\ LET acc == Accepted(out)
         idx == runInference(out).index
     IN  /\ lastIdleAnim' = IF RedrawDue(t, lastIdleAnim) THEN t ELSE lastIdleAnim
         /\ countBHdrive' = IF acc THEN SwitchIdle(0, idx, countBHdrive) ELSE countBHdrive
         /\ countBHsmash' = IF acc THEN SwitchIdle(1, idx, countBHsmash) ELSE countBHsmash
         /\ countFHdrive' = IF acc THEN SwitchIdle(2, idx, countFHdrive) ELSE countFHdrive
         /\ countFHloop' = IF acc THEN SwitchIdle(3, idx, countFHloop) ELSE countFHloop
         /\ countFHsmash' = IF acc THEN SwitchIdle(4, idx, countFHsmash) ELSE countFHsmash
         /\ totalStrokes' = IF acc THEN CountTotal(totalStrokes) ELSE totalStrokes
         /\ flashStart' = IF acc THEN t ELSE flashStart
         /\ encIndex' = IF acc THEN AdvanceCursor(encIndex, idx) ELSE encIndex
         /\ currentState' = IdleNextState(acc)
         /\ display' = Shown(IdleRenders(t, out))
  /\ UNCHANGED <<lastDisplay, lastStrokeTime>>

\* What the pass did, for the properties.  flashAge is the time since the
\* last accepted classification as the pass began, flashSince the time of
\* the pass that entered the FLASH state the pass ends in (-1 when it ends
\* in another state), and lastMsg the message
\* index last shown for each category (-1: none shown yet).
PassRecord(t, rd, out, renders) ==
  [state |-> currentState,
   sampled |-> SampleDue(t, lastIMUread),
   reading |-> IF SampleDue(t, lastIMUread) THEN rd ELSE NoReading,
   inferred |-> Inferred,
   status |-> IF Inferred THEN out.status ELSE "none",
   inf |-> IF Inferred THEN runInference(out) ELSE NoInference,
   frame |-> IF Inferred THEN Frame(imuBuffer', bufIndex') ELSE <<>>,
   plausible |-> Inferred /\ accelAboveThreshold(imuBuffer'),
   accepted |-> Accepted(out),
   flashAge |-> Elapsed(t, flashStart),
   flashSince |-> IF currentState' # STATE_FLASH THEN -1
                  ELSE IF currentState = STATE_FLASH THEN pass.flashSince
                  ELSE t,
   lastMsg |-> [k \in Categories |->
                 IF Accepted(out) /\ runInference(out).index = k
                 THEN RenderFlash(encIndex, k).b ELSE pass.lastMsg[k]],
   renders |-> renders]

\* One pass of loop() in each presentation state.
LoopMain(t, rd, out) ==
  /\ MainPass(t, rd, out)
  /\ pass' = PassRecord(t, rd, out, MainRenders(t, out))
  /\ UNCHANGED collectorVars

LoopFlash(t, rd, out) ==
  /\ FlashPass(t, rd, out)
  /\ pass' = PassRecord(t, rd, out, FlashRenders(t, out))
  /\ UNCHANGED collectorVars

LoopIdle(t, rd, out) ==
  /\ IdlePass(t, rd, out)
  /\ pass' = PassRecord(t, rd, out, IdleRenders(t, out))
  /\ UNCHANGED collectorVars

\* The inputs a pass consumes.  millis() is read at one of the instants at
\* which a time condition of the current case changes its value, or in the
\* same millisecond as the previous pass: the time conditions of loop() are
\* all of the form now - last >= K.
SampleInstant == {lastIMUread + SAMPLE_INTERVAL_MS}

MainInstants ==
  {lastDisplay + ANIM_INTERVAL_MS,
   lastStrokeTime + IDLE_TIMEOUT_MS}

FlashInstants ==
  {flashStart + FLASH_DURATION_MS}

IdleInstants == {lastIdleAnim + ANIM_INTERVAL_MS}

Instants(S) == {t \in {now} \cup SampleInstant \cup S : t >= now}

\* The IMU is read only when a sample is due, and the classifier is called
\* only when the hop trigger fires.
WillSample(t) == SampleDue(t, lastIMUread)

WillInfer(t) ==
  IF WillSample(t) THEN HopReady(Fill(sampleCount), Tick(sampleCounter))
  ELSE HopReady(sampleCount, sampleCounter)

ReadingsAt(t) == IF WillSample(t) THEN Readings ELSE {NoReading}

OutcomesAt(t) ==
  IF WillInfer(t) THEN Outcomes
  ELSE {[status |-> "ok", classification |-> Peak(0, CONF_THRESH)]}

Next ==
  \/ Setup
  \/ \E t \in Instants(MainInstants) :
       \E rd \in ReadingsAt(t), out \in OutcomesAt(t) : LoopMain(t, rd, out)
  \/ \E t \in Instants(FlashInstants) :
       \E rd \in ReadingsAt(t), out \in OutcomesAt(t) : LoopFlash(t, rd, out)
  \/ \E t \in Instants(IdleInstants) :
       \E rd \in ReadingsAt(t), out \in OutcomesAt(t) : LoopIdle(t, rd, out)

Spec == Init /\ [][Next]_vars

(***************************************************************************)
(* The same program, with millis() also read one millisecond before the    *)
(* idle timeout and the flash duration are reached, and a classifier that  *)
(* always succeeds.                                                        *)
(***************************************************************************)
MainBoundary == MainInstants \cup {lastStrokeTime + IDLE_TIMEOUT_MS - 1}

FlashBoundary == FlashInstants \cup {flashStart + FLASH_DURATION_MS - 1}

OutcomesAtBoundary(t) ==
  IF WillInfer(t)
  THEN {[status |-> "ok", classification |-> Peak(k, CONF_THRESH + 1)] :
          k \in {0, IDLE_LABEL_INDEX}}
  ELSE {[status |-> "ok", classification |-> Peak(0, CONF_THRESH)]}

NextBoundary ==
  \/ Setup
  \/ \E t \in Instants(MainBoundary) :
       \E rd \in ReadingsAt(t), out \in OutcomesAtBoundary(t) :
         LoopMain(t, rd, out)
  \/ \E t \in Instants(FlashBoundary) :
       \E rd \in ReadingsAt(t), out \in OutcomesAtBoundary(t) :
         LoopFlash(t, rd, out)
  \/ \E t \in Instants(IdleInstants) :
       \E rd \in ReadingsAt(t), out \in OutcomesAtBoundary(t) :
         LoopIdle(t, rd, out)

SpecBoundary == Init /\ [][NextBoundary]_vars

(***************************************************************************)
(* The same program sampled at every tick by a sensor that always has a    *)
(* reading.  The gyroscope z value of the n-th sample is n, which tells    *)
(* the rows of the ring buffer apart; the acceleration is at rest, exactly *)
(* at ACCEL_THRESH_G, or above it.                                         *)
(***************************************************************************)
Accelerations == {<<0, 0, 0>>, <<ACCEL_THRESH_G, 0, 0>>, <<2, 1, 0>>, <<0, 0, -3>>}

Tagged(n, acc) ==
  [accAvail |-> TRUE, ax |-> acc[1], ay |-> acc[2], az |-> acc[3],
   gyrAvail |-> TRUE, gx |-> 0, gy |-> 0, gz |-> n]

ReadingsAtRing(t) ==
  IF WillSample(t) THEN {Tagged(pushes + 1, acc) : acc \in Accelerations}
  ELSE {NoReading}

\* The classifier is sure (0.9) of a stroke or of the idle label.
OutcomesAtRing(t) ==
  IF WillInfer(t)
  THEN {[status |-> "ok", classification |-> Peak(k, 90)] :
          k \in {0, IDLE_LABEL_INDEX}}
  ELSE {[status |-> "ok", classification |-> Peak(0, CONF_THRESH)]}

NextRing ==
  \/ Setup
  \/ \E t \in Instants({}) :
       \E rd \in ReadingsAtRing(t), out \in OutcomesAtRing(t) :
         LoopMain(t, rd, out)
  \/ \E t \in Instants({}) :
       \E rd \in ReadingsAtRing(t), out \in OutcomesAtRing(t) :
         LoopFlash(t, rd, out)

SpecRing == Init /\ [][NextRing]_vars

(***************************************************************************)
(* The same program late in a long session, where the uint16_t counters    *)
(* and the uint8_t message cursors are about to wrap.                      *)
(*                                                                         *)
(* SessionAfter(n, P, T) is the state at the end of the pass at time T     *)
(* that returns from FLASH to MAIN, after n strokes of label 0 have been   *)
(* accepted in MAIN, P samples, all swings, have been ingested, and the    *)
(* classifier has rejected the window of that last pass.  The state after  *)
(* one stroke is reached from Init (SessionAfterOneStroke).                *)
(***************************************************************************)
Rejected == [status |-> "ok", classification |-> Peak(0, CONF_THRESH)]

SwingBuffer == [i \in 0 .. (WINDOW_SAMPLES - 1) |-> Row(Swing)]

SessionAfter(n, P, T) ==
  /\ currentState = STATE_MAIN
  /\ imuBuffer = SwingBuffer
  /\ bufIndex = P % WINDOW_SAMPLES
  /\ sampleCount = WINDOW_SAMPLES
  /\ sampleCounter = P % HOP_SAMPLES
  /\ countBHdrive = U16(n)
  /\ countBHsmash = 0
  /\ countFHdrive = 0
  /\ countFHloop = 0
  /\ countFHsmash = 0
  /\ totalStrokes = U16(n)
  /\ lastIMUread = T
  /\ lastDisplay = T
  /\ lastIdleAnim = PLAY_ANIM_FRAMES * ANIM_INTERVAL_MS
  /\ lastStrokeTime = T
  /\ flashStart = T - FLASH_DURATION_MS
  /\ encIndex = [k \in Categories |-> IF k = 0 THEN U8(n) ELSE 0]
  /\ display = RenderCounters(U16(n), 0, 0, 0, 0, U16(n))
  /\ now = T
  /\ pushes = P
  /\ attempts = P \div HOP_SAMPLES
  /\ attemptAt = P
  /\ pass = [state |-> STATE_FLASH, sampled |-> TRUE, reading |-> Swing,
             inferred |-> TRUE, status |-> "ok",
             inf |-> runInference(Rejected),
             frame |-> Frame(SwingBuffer, P % WINDOW_SAMPLES),
             plausible |-> TRUE, accepted |-> FALSE,
             flashAge |-> FLASH_DURATION_MS,
             flashSince |-> -1,
             lastMsg |-> [k \in Categories |->
                           IF k = 0 /\ n > 0 THEN (n - 1) % ENC_COUNT ELSE -1],
             renders |-> <<RenderCounters(U16(n), 0, 0, 0, 0, U16(n))>>]

\* 65534 or 65535 strokes, one flash of FLASH_DURATION_MS each, and a number
\* of samples that leaves the pending count at 0 or at 1.
LongStrokes == {65536 - 2, 65536 - 1}

LongPushes ==
  {65536 * WINDOW_SAMPLES * HOP_SAMPLES, 65536 * WINDOW_SAMPLES * HOP_SAMPLES + 1}

LongTime == 65536 * (FLASH_DURATION_MS + HOP_SAMPLES * SAMPLE_INTERVAL_MS)

InitLong ==
  /\ \E n \in LongStrokes, P \in LongPushes : SessionAfter(n, P, LongTime)
  /\ ticks = 0
  /\ CollectorGlobals

ReadingsAtLong(t) == IF WillSample(t) THEN {Swing} ELSE {NoReading}

OutcomesAtLong(t) ==
  IF WillInfer(t)
  THEN {Rejected}
       \cup {[status |-> "ok", classification |-> Peak(k, CONF_THRESH + 1)] :
               k \in {0, 4}}
  ELSE {Rejected}

NextLong ==
  \/ \E t \in Instants(MainInstants) :
       \E rd \in ReadingsAtLong(t), out \in OutcomesAtLong(t) :
         LoopMain(t, rd, out)
  \/ \E t \in Instants(FlashInstants) :
       \E rd \in ReadingsAtLong(t), out \in OutcomesAtLong(t) :
         LoopFlash(t, rd, out)
  \/ \E t \in Instants(IdleInstants) :
       \E rd \in ReadingsAtLong(t), out \in OutcomesAtLong(t) :
         LoopIdle(t, rd, out)

SpecLong == InitLong /\ [][NextLong]_vars

(***************************************************************************)
(* The data-collection sketch: sampleIMU, captureAndTransmitSwing,         *)
(* updateDisplay and loop (lines 131-272).  A sample in the circular       *)
(* buffer is held as its number since startup: the six values of a sample  *)
(* are copied together and its timestamp field is never read, so a         *)
(* transmitted data line is told by the sample whose values it prints.     *)
(***************************************************************************)
\* What the IMU delivers when a sample is taken: at rest, the acceleration
\* exactly at its threshold with a fast rotation, the rotation exactly at its
\* threshold with a strong acceleration, both above, or nothing available.
Still == [available |-> TRUE, acc |-> <<0, 0, 1>>, gyr |-> <<0, 0, 0>>]

AccelAtThreshold ==
  [available |-> TRUE, acc |-> <<ACCEL_THRESHOLD, 0, 0>>, gyr |-> <<300, 0, 0>>]

GyroAtThreshold ==
  [available |-> TRUE, acc |-> <<3, 0, 0>>, gyr |-> <<0, GYRO_THRESHOLD, 0>>]

Stroke == [available |-> TRUE, acc |-> <<2, 1, 0>>, gyr |-> <<200, 10, 0>>]

Motions == {Still, AccelAtThreshold, GyroAtThreshold, Stroke}

\* Lines 183-186: sqrt(x*x + y*y + z*z) > threshold, for a threshold >= 0.
SquaredMagnitude(v) == v[1] * v[1] + v[2] * v[2] + v[3] * v[3]

\* Mutant: a magnitude equal to the threshold passes.
Exceeds_NonStrict(v, threshold) == SquaredMagnitude(v) >= threshold * threshold

Exceeds(v, threshold) == SquaredMagnitude(v) > threshold * threshold

\* Line 182: millis() - lastSwingTime > COOLDOWN_MS.
CooledDown(t, last) == t - last > COOLDOWN_MS

\* Lines 182-186: whether the sample just stored is a trigger.
SwingTriggers(connected, pending, t, last, motion) ==
  /\ connected
  /\ ~pending
  /\ CooledDown(t, last)
  /\ Exceeds(motion.acc, ACCEL_THRESHOLD)
  /\ Exceeds(motion.gyr, GYRO_THRESHOLD)

\* Line 189: the index of the sample just stored.
TriggerIndexOf(idx) == (idx - 1 + TOTAL_SAMPLES) % TOTAL_SAMPLES

\* Line 197: millis() - triggerTime >= POST_TRIGGER_MS.
\* Mutant: the capture waits for more than POST_TRIGGER_MS.
CaptureComplete_Late(t, trig) == t - trig > POST_TRIGGER_MS

CaptureComplete(t, trig) == t - trig >= POST_TRIGGER_MS

\* Line 200: swingCount++.
\* Mutant: the swing count is not advanced.
NextSwingCount_Keep(count) == count

NextSwingCount(count) == count + 1

\* Lines 206-240: the values written to the characteristic, in order.
Header(count, trig) == [kind |-> "header", a |-> count + 1, b |-> trig]

StartIndex(trigIdx) ==
  (trigIdx - PRE_TRIGGER_SAMPLES + TOTAL_SAMPLES) % TOTAL_SAMPLES

DataLine(i, buf, start) ==
  [kind |-> "data", a |-> i * SAMPLE_INTERVAL_MS,
   b |-> buf[(start + i) % TOTAL_SAMPLES]]

EndMarker == [kind |-> "END_SWING", a |-> 0, b |-> 0]

captureAndTransmitSwing(count, trig, trigIdx, buf) ==
  <<Header(count, trig)>>
  \o [n \in 1 .. TOTAL_SAMPLES |-> DataLine(n - 1, buf, StartIndex(trigIdx))]
  \o <<EndMarker>>

\* The time captureAndTransmitSwing spends in delay().
TransmitDelay == HEADER_DELAY_MS + TOTAL_SAMPLES * LINE_DELAY_MS

\* Lines 242-272: what updateDisplay() draws at time m.
Waiting ==
  [screen |-> "waiting", swings |-> 0, seconds |-> 0, capturing |-> FALSE]

Screen(connected, count, m, session, pending) ==
  IF ~connected THEN Waiting
  ELSE [screen |-> "connected", swings |-> count,
        seconds |-> (m - session) \div 1000, capturing |-> pending]

\* setup (lines 72-129): sessionStartTime = millis(), the waiting screen.
\* setup() returns at an unknown time; the cooldown test of line 182 counts
\* from lastSwingTime = 0, so the time taken is COOLDOWN_MS.
BootTimes == {COOLDOWN_MS}

CollectorSetup ==
  /\ ~started
  /\ started' = TRUE
  /\ \E boot \in BootTimes :
       /\ millis' = boot
       /\ sessionStartTime' = boot
  /\ oled' = Waiting
  /\ UNCHANGED <<bleConnected, circularBuffer, bufferIndex, bufferFull,
                 swingDetected, triggerIndex, lastSwingTime, triggerTime,
                 swingCount, lastSampleTime, lastDisplayUpdate, collected,
                 connections, idle, trigger, step>>
  /\ UNCHANGED batVars

\* One pass of loop() (lines 131-160) that reads millis() as t, finds
\* BLE.central() to be central and, if a sample is due, the IMU to deliver
\* motion.  captureAndTransmitSwing runs inside the pass and delays it.
\* History: step.motion is the reading the trigger test examined, step.nth
\* the number of transmissions since the latest connection, step.sent the
\* values written by the pass; trigger is the sample number, the connection
\* number and the time of the latest trigger.
CollectorLoop(t, central, motion) ==
  LET connects == central /\ ~bleConnected
      disconnects == ~central /\ bleConnected
      connected == IF connects THEN TRUE
                   ELSE IF disconnects THEN FALSE ELSE bleConnected
      count0 == IF connects THEN 0 ELSE swingCount
      session == IF connects THEN t ELSE sessionStartTime
      due == t - lastSampleTime >= SAMPLE_INTERVAL_MS
      stored == due /\ motion.available
      buf == IF stored THEN [circularBuffer EXCEPT ![bufferIndex] = collected + 1]
             ELSE circularBuffer
      idx == IF stored THEN (bufferIndex + 1) % TOTAL_SAMPLES ELSE bufferIndex
      examines == stored /\ connected /\ ~swingDetected
                  /\ CooledDown(t, lastSwingTime)
      fires == stored
               /\ SwingTriggers(connected, swingDetected, t, lastSwingTime, motion)
      pending == swingDetected \/ fires
      trigTime == IF fires THEN t ELSE triggerTime
      trigIdx == IF fires THEN TriggerIndexOf(idx) ELSE triggerIndex
      transmits == stored /\ pending /\ connected /\ CaptureComplete(t, trigTime)
      messages == IF transmits
                  THEN captureAndTransmitSwing(count0, trigTime, trigIdx, buf)
                  ELSE <<>>
      count1 == IF transmits THEN NextSwingCount(count0) ELSE count0
      pending1 == pending /\ ~transmits
      done == IF transmits THEN t + TransmitDelay ELSE t
      redraw == done - lastDisplayUpdate >= DISPLAY_INTERVAL_MS
      waits == due /\ connections = 0 /\ ~connects
      idles == due /\ ~transmits
               /\ \/ ~stored
                  \/ ~waits /\ ~(pending1 /\ connected)
  IN  /\ started
      /\ t >= millis
      /\ connects => connections < MaxConnections
      /\ due => collected < MaxCollected
      /\ waits => collected < MaxWaiting
      /\ idles => idle < MaxIdle
      /\ ~due => motion = NoMotion
      /\ bleConnected' = connected
      /\ sessionStartTime' = session
      /\ lastSampleTime' = IF due THEN t ELSE lastSampleTime
      /\ circularBuffer' = buf
      /\ bufferIndex' = idx
      /\ bufferFull' = (bufferFull \/ (stored /\ idx = 0))
      /\ swingDetected' = pending1
      /\ triggerTime' = trigTime
      /\ triggerIndex' = trigIdx
      /\ lastSwingTime' = IF fires THEN t ELSE lastSwingTime
      /\ swingCount' = count1
      /\ millis' = done
      /\ lastDisplayUpdate' = IF redraw THEN done ELSE lastDisplayUpdate
      /\ oled' = IF redraw THEN Screen(connected, count1, done, session, pending1)
                 ELSE IF connects \/ disconnects
                      THEN Screen(connected, count0, t, session, swingDetected)
                      ELSE oled
      /\ collected' = IF stored THEN collected + 1 ELSE collected
      /\ connections' = IF connects THEN connections + 1 ELSE connections
      /\ idle' = IF idles THEN idle + 1 ELSE idle
      /\ trigger' = IF fires
                    THEN [sample |-> collected + 1, connection |-> connections',
                          time |-> t]
                    ELSE trigger
      /\ step' = [time |-> t, sampled |-> stored,
                  motion |-> IF examines THEN motion ELSE NoMotion,
                  connected |-> connects, disconnected |-> disconnects,
                  triggered |-> fires, transmitted |-> transmits,
                  nth |-> (IF connects THEN 0 ELSE step.nth)
                          + (IF transmits THEN 1 ELSE 0),
                  sent |-> messages]
      /\ UNCHANGED started
      /\ UNCHANGED batVars

\* The inputs a pass consumes.  millis() is read when the next sample or
\* display update is due, or at once if that time has passed.
Sooner(a, b) == IF a <= b THEN a ELSE b

Later(a, b) == IF a >= b THEN a ELSE b

NextDue ==
  Sooner(lastSampleTime + SAMPLE_INTERVAL_MS,
         lastDisplayUpdate + DISPLAY_INTERVAL_MS)

CollectorInstants == {Later(millis, NextDue)}

MotionsAt(t) ==
  IF t - lastSampleTime >= SAMPLE_INTERVAL_MS
  THEN Motions \cup {NoMotion} ELSE {NoMotion}

NextCollector ==
  \/ CollectorSetup
  \/ \E t \in CollectorInstants, central \in BOOLEAN :
       \E motion \in MotionsAt(t) : CollectorLoop(t, central, motion)

SpecCollector == Init /\ [][NextCollector]_vars

(***************************************************************************)
(* Properties                                                              *)
(***************************************************************************)
\* The counter of category k.
CountOf(k) ==
  CASE k = 0 -> countBHdrive
    [] k = 1 -> countBHsmash
    [] k = 2 -> countFHdrive
    [] k = 3 -> countFHloop
    [] OTHER -> countFHsmash

\* A flash render command is among the commands of a pass.
FlashIn(renders) == \E i \in 1 .. Len(renders) : renders[i].cmd = "flash"

\* A pass of loop() has been taken.
Looped == pass.state # STATE_OPENING

\* C1: runInference is called only when the ring buffer has received at least
\* WINDOW_SAMPLES pushes (sampleCount >= WINDOW_SAMPLES): no classification
\* attempt is made, in any presentation state, before the first full fill.
C1_NoInferenceBeforeFill ==
  /\ pushes < WINDOW_SAMPLES => attempts = 0 /\ ~pass.inferred
  /\ sampleCount < WINDOW_SAMPLES => attempts = 0 /\ ~pass.inferred
  /\ pass.inferred => attemptAt >= WINDOW_SAMPLES

\* The hop threshold has been reached while the buffer is still filling, and
\* no classification has been attempted; then the pass that completes the
\* first fill calls the classifier.
C1_Witness ==
  /\ pass.inferred
  /\ pushes = WINDOW_SAMPLES
  /\ attempts = 1

C1_PendingBeforeFill ==
  /\ sampleCount < WINDOW_SAMPLES
  /\ sampleCounter >= HOP_SAMPLES
  /\ attempts = 0

\* C2: a classification accepted while the state is MAIN leaves the state
\* FLASH at the end of that pass, whatever the time since MAIN was entered
\* and whatever the time since the last redraw of the counters.
C2_AcceptInMainEndsInFlash ==
  (pass.state = STATE_MAIN /\ pass.accepted) => currentState = STATE_FLASH

\* C3: at the end of every pass that leaves the state FLASH, the screen shows
\* the flash message, and after an acceptance that of the accepted category;
\* no counters or idle render follows the flash render in the pass.
C3_FlashIsShownInFlash ==
  (Looped /\ currentState = STATE_FLASH) =>
    /\ display.cmd = "flash"
    /\ pass.accepted => display.a = <<pass.inf.index>>

\* C4: accepting a classification with label k raises the counter of
\* category k by exactly 1 and totalStrokes by exactly 1 and leaves the other
\* four category counters unchanged, in MAIN, FLASH and IDLE.
C4_AcceptCountsCategory ==
  [][pass'.accepted =>
       /\ totalStrokes' = totalStrokes + 1
       /\ \A k \in Categories :
            CountOf(k)' = IF k = pass'.inf.index THEN CountOf(k) + 1
                          ELSE CountOf(k)]_vars

\* The decision gate of the claim, on the result and the window of a pass.
GatePasses(p, buf) ==
  /\ p.inferred
  /\ p.inf.confidence > CONF_THRESH
  /\ p.inf.index # IDLE_LABEL_INDEX
  /\ accelAboveThreshold(buf)

\* C5: a pass counts a stroke and draws the flash message if and only if
\* the classifier was called and, for the window it was called on, the
\* confidence is strictly above CONF_THRESH, the label is not the idle label
\* and the plausibility gate passes; the rule is the same in MAIN, FLASH and
\* IDLE.
C5_DecisionGate ==
  [][/\ (totalStrokes' # totalStrokes) <=> GatePasses(pass', imuBuffer')
     /\ (totalStrokes' # totalStrokes) <=> FlashIn(pass'.renders)
     /\ (totalStrokes' # totalStrokes) => totalStrokes' = totalStrokes + 1]_vars

\* A result of confidence exactly CONF_THRESH with a stroke label on a
\* plausible window has been rejected.
C5_Witness ==
  /\ pass.inferred
  /\ pass.status = "ok"
  /\ pass.inf.confidence = CONF_THRESH
  /\ pass.inf.index # IDLE_LABEL_INDEX
  /\ pass.plausible
  /\ ~pass.accepted
  /\ ~FlashIn(pass.renders)

\* Further cases of C5 that the model reaches.
C5_ConfidentButImplausible ==
  /\ pass.inferred
  /\ pass.inf.confidence > CONF_THRESH
  /\ pass.inf.index # IDLE_LABEL_INDEX
  /\ ~pass.plausible
  /\ ~pass.accepted

C5_AcceptedInIdle == pass.state = STATE_IDLE /\ pass.accepted

C5_AcceptedInFlash == pass.state = STATE_FLASH /\ pass.accepted

C5_IdleLabelRejected ==
  /\ pass.inferred
  /\ pass.inf.confidence > CONF_THRESH
  /\ pass.inf.index = IDLE_LABEL_INDEX
  /\ pass.plausible
  /\ ~pass.accepted

Leftover == attemptAt - attempts * HOP_SAMPLES

C7_HopCadence ==
  /\ attempts <= pushes \div HOP_SAMPLES + 1
  /\ pushes \div HOP_SAMPLES <= attempts + 1

\* Three attempts have been made when 3 * HOP_SAMPLES samples are ingested.
C7_Witness ==
  /\ attempts = 3
  /\ pushes = 3 * HOP_SAMPLES

\* While the buffer fills, the count lags floor(T / HOP_SAMPLES) by one.
C7_LagBeforeFill ==
  /\ attempts = 0
  /\ pushes \div HOP_SAMPLES = 1

\* C8: every ingested sample raises sampleCounter by exactly 1, also before
\* the buffer is full; every classification attempt lowers it by exactly
\* HOP_SAMPLES, keeping the leftover; the subtraction is made only from a
\* value of at least HOP_SAMPLES, so the unsigned counter never underflows.
C8_PendingCounter ==
  [][LET pushed == pushes' - pushes
         called == attempts' - attempts
     IN  /\ pushed \in {0, 1}
         /\ called \in {0, 1}
         /\ sampleCounter' = sampleCounter + pushed - called * HOP_SAMPLES
         /\ called = 1 => sampleCounter + pushed >= HOP_SAMPLES
         /\ sampleCounter' >= 0]_vars

\* An attempt has left a leftover in the pending counter.
C8_Witness ==
  /\ pass.inferred
  /\ pass.sampled
  /\ sampleCounter > 0
  /\ sampleCounter = pushes - attempts * HOP_SAMPLES

\* C9: when the sensor has no reading at a sampling tick, the tick is skipped
\* with no state change: ring buffer, write cursor, filled counter and
\* pending counter are unchanged, and no value the sensor did not produce is
\* written into the buffer.
C9_NoReadingSkipsTick ==
  [][(pass'.sampled /\ ~pass'.reading.accAvail /\ ~pass'.reading.gyrAvail) =>
       /\ UNCHANGED <<imuBuffer, bufIndex, sampleCount>>
       /\ ~pass'.inferred => UNCHANGED sampleCounter]_vars

\* A result of low confidence, and the pass of loop() in presentation state
\* st without its history record.
LowConfidence == [status |-> "ok", classification |-> Peak(0, CONF_THRESH - 1)]

PassIn(st, t, rd, out) ==
  CASE st = STATE_MAIN -> MainPass(t, rd, out)
    [] st = STATE_FLASH -> FlashPass(t, rd, out)
    [] OTHER -> IdlePass(t, rd, out)

Failed(p) == p.status \in {"signal_error", "classifier_error"}

\* C10: when signal construction or run_classifier fails, the attempt is a
\* reject in every state: no counter changes, no flash is drawn, the state,
\* the timers and the screen change exactly as for a result of low
\* confidence, and the hop is consumed.
C10_FailureIsReject ==
  [][Failed(pass') =>
       /\ UNCHANGED <<countBHdrive, countBHsmash, countFHdrive, countFHloop,
                      countFHsmash, totalStrokes, encIndex, flashStart>>
       /\ ~FlashIn(pass'.renders)
       /\ ~pass'.accepted
       /\ sampleCounter' = sampleCounter + (pushes' - pushes) - HOP_SAMPLES
       /\ PassIn(pass'.state, now', pass'.reading, LowConfidence)]_vars

\* The classifier has failed on a plausible window while a flash was shown.
C10_Witness ==
  /\ Failed(pass)
  /\ pass.plausible
  /\ pass.state = STATE_FLASH

C10_FailedInMain == Failed(pass) /\ pass.plausible /\ pass.state = STATE_MAIN

C10_FailedInIdle == Failed(pass) /\ pass.plausible /\ pass.state = STATE_IDLE

\* The state after one stroke of a session as SpecLong continues it.
SessionAfterOneStroke == SessionAfter(1, pushes, now)

\* C11: lastStrokeTime is the time at which MAIN was entered (by setup or on
\* leaving FLASH) and does not change while the state stays MAIN; a pass in
\* MAIN at least IDLE_TIMEOUT_MS after that time ends in IDLE; a pass in MAIN
\* that accepts a classification less than IDLE_TIMEOUT_MS after that time
\* ends in FLASH; and MAIN moves to IDLE in no pass earlier than
\* IDLE_TIMEOUT_MS after that time.
C11_IdleTimeout ==
  [][/\ (currentState # STATE_MAIN /\ currentState' = STATE_MAIN) =>
          lastStrokeTime' = now'
     /\ currentState = STATE_MAIN =>
          /\ lastStrokeTime' = lastStrokeTime
          /\ now' - lastStrokeTime >= IDLE_TIMEOUT_MS =>
               currentState' = STATE_IDLE
          /\ (pass'.accepted /\ now' - lastStrokeTime < IDLE_TIMEOUT_MS) =>
               currentState' = STATE_FLASH
          /\ currentState' = STATE_IDLE =>
               now' - lastStrokeTime >= IDLE_TIMEOUT_MS
     /\ currentState' = STATE_IDLE =>
          currentState \in {STATE_MAIN, STATE_IDLE}]_vars

\* A classification accepted IDLE_TIMEOUT_MS - 1 ms after MAIN was entered
\* has moved the state to FLASH.
C11_Witness ==
  /\ pass.state = STATE_MAIN
  /\ pass.accepted
  /\ now = lastStrokeTime + IDLE_TIMEOUT_MS - 1
  /\ currentState = STATE_FLASH

\* MAIN has timed out to IDLE exactly IDLE_TIMEOUT_MS after it was entered
\* from FLASH.
C11_TimedOutAfterFlash ==
  /\ pass.state = STATE_MAIN
  /\ currentState = STATE_IDLE
  /\ now = lastStrokeTime + IDLE_TIMEOUT_MS
  /\ ~pass.accepted
  /\ totalStrokes > 0

\* A pass in MAIN one millisecond before the timeout has left the state MAIN.
C11_StillMainBeforeTimeout ==
  /\ pass.state = STATE_MAIN
  /\ currentState = STATE_MAIN
  /\ now = lastStrokeTime + IDLE_TIMEOUT_MS - 1

\* C12: a pass in FLASH that accepts a classification sets flashStart to the
\* time of the pass, issues one render command, the flash message of the
\* accepted category, which is what the screen then shows, and ends in FLASH
\* with nothing done of the return to MAIN (lastDisplay and lastStrokeTime
\* unchanged), whatever the age of the flash it replaces.
C12_AcceptInFlashRestartsFlash ==
  [][(currentState = STATE_FLASH /\ pass'.accepted) =>
       /\ flashStart' = now'
       /\ Elapsed(now', flashStart') = 0
       /\ pass'.renders = <<RenderFlash(encIndex, pass'.inf.index)>>
       /\ display' = RenderFlash(encIndex, pass'.inf.index)
       /\ currentState' = STATE_FLASH
       /\ UNCHANGED <<lastDisplay, lastStrokeTime>>]_vars

\* A classification has been accepted in FLASH in the pass in which the
\* flash it replaces had lasted FLASH_DURATION_MS.
C12_Witness ==
  /\ pass.state = STATE_FLASH
  /\ pass.accepted
  /\ pass.flashAge >= FLASH_DURATION_MS
  /\ currentState = STATE_FLASH
  /\ flashStart = now
  /\ display.cmd = "flash"

\* A classification has been accepted in FLASH while the flash was running.
C12_AcceptedDuringFlash ==
  /\ pass.state = STATE_FLASH
  /\ pass.accepted
  /\ pass.flashAge > 0
  /\ pass.flashAge < FLASH_DURATION_MS

\* C13: flashStart is the time of the most recent accepted classification;
\* a pass in FLASH ends in FLASH or in MAIN, and in MAIN exactly when it
\* accepts nothing and is at least FLASH_DURATION_MS after flashStart; that
\* pass leaves the counters on the screen and sets lastDisplay and
\* lastStrokeTime to its time; and while the state stays MAIN lastStrokeTime
\* is kept and IDLE is entered only IDLE_TIMEOUT_MS or more after it.
C13_FlashLeavesToMain ==
  [][/\ flashStart' = IF pass'.accepted THEN now' ELSE flashStart
     /\ currentState = STATE_FLASH =>
          /\ currentState' \in {STATE_FLASH, STATE_MAIN}
          /\ currentState' = STATE_MAIN <=>
               (~pass'.accepted /\ now' - flashStart >= FLASH_DURATION_MS)
          /\ currentState' = STATE_MAIN =>
               /\ display' =
                    RenderCounters(countBHdrive', countBHsmash', countFHdrive',
                                   countFHloop', countFHsmash', totalStrokes')
               /\ display'.cmd = "counters"
               /\ lastStrokeTime' = now'
               /\ lastDisplay' = now'
     /\ currentState = STATE_MAIN =>
          /\ lastStrokeTime' = lastStrokeTime
          /\ currentState' = STATE_IDLE =>
               now' - lastStrokeTime >= IDLE_TIMEOUT_MS]_vars

\* The flash has ended FLASH_DURATION_MS after the accepted classification:
\* the state is MAIN, the counters are shown and the idle timer restarted.
C13_Witness ==
  /\ pass.state = STATE_FLASH
  /\ pass.flashAge = FLASH_DURATION_MS
  /\ currentState = STATE_MAIN
  /\ display.cmd = "counters"
  /\ lastStrokeTime = now

\* One millisecond earlier the flash is still on.
C13_StillFlashBeforeExpiry ==
  /\ pass.state = STATE_FLASH
  /\ pass.flashAge = FLASH_DURATION_MS - 1
  /\ currentState = STATE_FLASH

\* C14: in every pass of loop(), in MAIN, FLASH and IDLE alike, a sample is
\* ingested exactly when SAMPLE_INTERVAL_MS has elapsed since the last one;
\* the classifier is called, once, exactly when after that the buffer is full
\* and the pending count is at least HOP_SAMPLES; and its result is accepted
\* exactly when the decision gate passes.  What the pipeline does is
\* determined by the time, the buffer and the two counters, not by the state.
C14_PipelineNotGated ==
  [][(currentState # STATE_OPENING) =>
       LET due == now' - lastIMUread >= SAMPLE_INTERVAL_MS
           pushed == IF due THEN 1 ELSE 0
           ready == /\ sampleCount' >= WINDOW_SAMPLES
                    /\ sampleCounter + pushed >= HOP_SAMPLES
       IN  /\ pass'.state = currentState
           /\ pushes' = pushes + pushed
           /\ pass'.sampled <=> due
           /\ lastIMUread' = IF due THEN now' ELSE lastIMUread
           /\ bufIndex' = (bufIndex + pushed) % WINDOW_SAMPLES
           /\ imuBuffer' = IF due
                           THEN [imuBuffer EXCEPT ![bufIndex] = Row(pass'.reading)]
                           ELSE imuBuffer
           /\ attempts' = attempts + (IF ready THEN 1 ELSE 0)
           /\ pass'.inferred <=> ready
           /\ pass'.accepted <=> GatePasses(pass', imuBuffer')]_vars

\* A pass taken while the flash message is shown has ingested a sample and
\* called the classifier.
C14_Witness ==
  /\ pass.state = STATE_FLASH
  /\ currentState = STATE_FLASH
  /\ pass.sampled
  /\ pass.inferred

\* The same in IDLE and in MAIN.
C14_PipelineInIdle ==
  /\ pass.state = STATE_IDLE
  /\ pass.sampled
  /\ pass.inferred

C14_PipelineInMain ==
  /\ pass.state = STATE_MAIN
  /\ pass.sampled
  /\ pass.inferred

\* The number carried by a row of the ring buffer: the gyroscope z value,
\* which in SpecRing is the serial number of the push that wrote the row.
Serial(row) == row[AXIS_COUNT - 1]

\* C15: once WINDOW_SAMPLES samples have been pushed, the frame built from
\* the buffer holds the WINDOW_SAMPLES most recently pushed samples in push
\* order, the oldest first and the newest last, for every position of the
\* write cursor; the frame a pass hands to the classifier is that frame; and
\* the pass leaves the buffer, the cursor and the filled counter as its
\* sampling left them, the pending counter being lowered by HOP_SAMPLES by
\* the caller (line 159) and not by the frame building.
C15_FrameIsLastWindow ==
  [][/\ sampleCount' >= WINDOW_SAMPLES =>
          \A i \in 0 .. (WINDOW_SAMPLES - 1) :
            Serial(Frame(imuBuffer', bufIndex')[i]) = pushes' - WINDOW_SAMPLES + 1 + i
     /\ pass'.inferred =>
          LET pushed == IF pass'.sampled THEN 1 ELSE 0
          IN  /\ DOMAIN pass'.frame = 0 .. (WINDOW_SAMPLES - 1)
              /\ \A i \in 0 .. (WINDOW_SAMPLES - 1) :
                   /\ Serial(pass'.frame[i]) = pushes' - WINDOW_SAMPLES + 1 + i
                   /\ \E j \in 0 .. (WINDOW_SAMPLES - 1) :
                        pass'.frame[i] = imuBuffer'[j]
              /\ Serial(pass'.frame[WINDOW_SAMPLES - 1]) = pushes'
              /\ imuBuffer' = IF pass'.sampled
                              THEN [imuBuffer EXCEPT ![bufIndex] = Row(pass'.reading)]
                              ELSE imuBuffer
              /\ bufIndex' = (bufIndex + pushed) % WINDOW_SAMPLES
              /\ sampleCount' = WINDOW_SAMPLES
              /\ sampleCounter' = sampleCounter + pushed - HOP_SAMPLES]_vars

\* A frame has been built after the cursor has wrapped, with the cursor in
\* the middle of the buffer.
C15_Witness ==
  /\ pass.inferred
  /\ pushes > WINDOW_SAMPLES
  /\ bufIndex # 0
  /\ Serial(pass.frame[0]) = pushes - WINDOW_SAMPLES + 1
  /\ Serial(imuBuffer[0]) = pushes

\* A frame has been built after the cursor has wrapped twice.
C15_AfterTwoWraps ==
  /\ pass.inferred
  /\ pushes = 2 * WINDOW_SAMPLES
  /\ bufIndex = 0

\* C16: after n pushes the write cursor is n mod WINDOW_SAMPLES, within
\* 0 .. WINDOW_SAMPLES-1, and sampleCount is min(n, WINDOW_SAMPLES); a push
\* writes the new sample into the slot at the cursor and leaves every other
\* slot as it was, and once the buffer is full that slot held the oldest
\* sample, the one pushed WINDOW_SAMPLES pushes earlier; a pass that pushes
\* nothing leaves the buffer as it was.
C16_RingInvariant ==
  [][/\ bufIndex' = pushes' % WINDOW_SAMPLES
     /\ bufIndex' \in 0 .. (WINDOW_SAMPLES - 1)
     /\ sampleCount' = IF pushes' < WINDOW_SAMPLES THEN pushes' ELSE WINDOW_SAMPLES
     /\ sampleCount' <= WINDOW_SAMPLES
     /\ pushes' \in {pushes, pushes + 1}
     /\ pushes' = pushes => UNCHANGED <<imuBuffer, bufIndex, sampleCount>>
     /\ pushes' = pushes + 1 =>
          /\ \A j \in 0 .. (WINDOW_SAMPLES - 1) :
               j # bufIndex => imuBuffer'[j] = imuBuffer[j]
          /\ imuBuffer'[bufIndex] = Row(pass'.reading)
          /\ Serial(imuBuffer'[bufIndex]) = pushes'
          /\ pushes >= WINDOW_SAMPLES =>
               /\ Serial(imuBuffer[bufIndex]) = pushes' - WINDOW_SAMPLES
               /\ \A j \in 0 .. (WINDOW_SAMPLES - 1) :
                    Serial(imuBuffer[j]) >= Serial(imuBuffer[bufIndex])]_vars

\* The push after the first wrap of the cursor has overwritten slot 0, which
\* held the oldest sample.
C16_Witness ==
  /\ pass.sampled
  /\ pushes = WINDOW_SAMPLES + 1
  /\ bufIndex = 1
  /\ sampleCount = WINDOW_SAMPLES
  /\ Serial(imuBuffer[0]) = pushes
  /\ Serial(imuBuffer[1]) = pushes - WINDOW_SAMPLES + 1

\* The squared acceleration magnitude, in g^2, of a stored row (the stored
\* values are readings in g multiplied by CONVERT_G_TO_MS2).
SquaredG(row) ==
  LET x == row[0] \div CONVERT_G_TO_MS2
      y == row[1] \div CONVERT_G_TO_MS2
      z == row[2] \div CONVERT_G_TO_MS2
  IN  x * x + y * y + z * z

AboveThreshold(row) == SquaredG(row) > ACCEL_THRESH_G * ACCEL_THRESH_G

\* C17: for the window a pass has classified, the plausibility gate passes
\* if and only if at least one of its WINDOW_SAMPLES samples has a squared
\* acceleration magnitude strictly above (2 g)^2; a result is accepted only
\* if it does, and a pass whose window is entirely at or below 2 g counts no
\* stroke and draws no flash.
C17_PlausibilityGate ==
  [][pass'.inferred =>
       LET some == \E i \in 0 .. (WINDOW_SAMPLES - 1) : AboveThreshold(pass'.frame[i])
       IN  /\ pass'.plausible <=> some
           /\ pass'.accepted <=>
                (some /\ pass'.inf.confidence > CONF_THRESH
                      /\ pass'.inf.index # IDLE_LABEL_INDEX)
           /\ ~some => /\ UNCHANGED <<totalStrokes, countBHdrive, encIndex, flashStart>>
                       /\ ~FlashIn(pass'.renders)]_vars

\* A result has been accepted on a window whose oldest sample alone is above
\* 2 g, the newest being exactly at 2 g.
C17_Witness ==
  /\ pass.accepted
  /\ AboveThreshold(pass.frame[0])
  /\ \A i \in 1 .. (WINDOW_SAMPLES - 1) : ~AboveThreshold(pass.frame[i])
  /\ SquaredG(pass.frame[WINDOW_SAMPLES - 1]) = ACCEL_THRESH_G * ACCEL_THRESH_G

\* A confident stroke result has been rejected on a window whose samples are
\* all exactly at 2 g.
C17_AllAtThresholdRejected ==
  /\ pass.inferred
  /\ pass.inf.confidence > CONF_THRESH
  /\ pass.inf.index # IDLE_LABEL_INDEX
  /\ \A i \in 0 .. (WINDOW_SAMPLES - 1) :
       SquaredG(pass.frame[i]) = ACCEL_THRESH_G * ACCEL_THRESH_G
  /\ ~pass.plausible
  /\ ~pass.accepted

\* Every sample of the frame is below 2 g.
AllBelowThreshold(frame) ==
  \A i \in 0 .. (WINDOW_SAMPLES - 1) :
    SquaredG(frame[i]) < ACCEL_THRESH_G * ACCEL_THRESH_G

\* C18 as claimed, for the window length of the model (hop = (W+1)/2 as for
\* W = 25, hop = 13): the pass that ingests the HOP_SAMPLES-th sample calls
\* the classifier.
C18_CallAfterOneHop ==
  (pass.sampled /\ pushes = HOP_SAMPLES) => (pass.inferred /\ attempts >= 1)

\* C18 as amended: no classifier call occurs while fewer than WINDOW_SAMPLES
\* samples have been fed, so none after HOP_SAMPLES samples; the first call
\* occurs in the pass that ingests the WINDOW_SAMPLES-th sample, and if all
\* samples fed are below 2 g then even a result of confidence 0.9 with a
\* stroke label is rejected: no counter is incremented, no flash is drawn and
\* the state remains MAIN.
C18_BelowThresholdWindowRejected ==
  /\ pushes < WINDOW_SAMPLES => (attempts = 0 /\ ~pass.inferred)
  /\ (pass.sampled /\ pushes = WINDOW_SAMPLES) => (pass.inferred /\ attempts = 1)
  /\ (pass.inferred /\ pushes = WINDOW_SAMPLES /\ AllBelowThreshold(pass.frame)) =>
       /\ ~pass.accepted
       /\ ~FlashIn(pass.renders)
       /\ totalStrokes = 0
       /\ \A k \in Categories : CountOf(k) = 0
       /\ currentState = STATE_MAIN

\* The first classifier call, on a window entirely below 2 g, has returned
\* confidence 0.9 for a stroke label and has been rejected.
C18_Witness ==
  /\ pass.inferred
  /\ pushes = WINDOW_SAMPLES
  /\ attempts = 1
  /\ AllBelowThreshold(pass.frame)
  /\ pass.inf.confidence = 90
  /\ pass.inf.index = 0
  /\ totalStrokes = 0
  /\ currentState = STATE_MAIN

\* The six counters.
Counters ==
  <<countBHdrive, countBHsmash, countFHdrive, countFHloop, countFHsmash,
    totalStrokes>>

\* C19 as claimed: over any pass each of the five category counters and the
\* total is at least what it was, and changes only if the pass accepted a
\* classification.
C19_CountersNeverDecrease ==
  [][/\ \A i \in 1 .. 6 : Counters'[i] >= Counters[i]
     /\ Counters' # Counters => pass'.accepted]_vars

\* C19 as amended: a counter changes only in a pass that accepts a
\* classification, and then by one step of uint16_t arithmetic: to the next
\* value, or from 65535 to 0.  So each counter is non-decreasing as long as
\* it is below 65535, and the only decrease is that wrap; the total takes
\* its step in every accepting pass.
C19_CountersStepOrWrap ==
  [][/\ \A i \in 1 .. 6 :
          /\ Counters'[i] \in {Counters[i], (Counters[i] + 1) % 65536}
          /\ Counters[i] < 65535 => Counters'[i] >= Counters[i]
          /\ Counters'[i] < Counters[i] => (Counters[i] = 65535 /\ Counters'[i] = 0)
          /\ Counters'[i] \in 0 .. 65535
     /\ Counters' # Counters => pass'.accepted
     /\ pass'.accepted => totalStrokes' = (totalStrokes + 1) % 65536]_vars

\* The total and a category counter have wrapped from 65535 to 0 in an
\* accepting pass, and the total has been counted on from there.
C19_Witness ==
  /\ pass.accepted
  /\ countBHdrive = 0
  /\ totalStrokes = 1

\* The counters at the wrap.
C19_TotalWrapped == pass.accepted /\ totalStrokes = 0

C19_TotalAtMaximum == pass.accepted /\ totalStrokes = 65535

\* The flash render command of a pass.
FlashOf(renders) ==
  renders[CHOOSE i \in 1 .. Len(renders) : renders[i].cmd = "flash"]

\* C20: a pass that displays the flash message of category k shows message
\* index 0 if none was shown for k before and otherwise the other index than
\* the one last shown for k, whatever has been displayed for other
\* categories in between and also when the uint8_t cursor wraps from 255 to
\* 0; it advances the cursor of k by one (modulo 256) and leaves the cursors
\* of the other four categories unchanged; a pass that displays no flash
\* message leaves all five cursors unchanged.
C20_MessagesAlternate ==
  [][/\ ~pass'.accepted => UNCHANGED encIndex
     /\ pass'.accepted =>
          LET k == pass'.inf.index
              shown == FlashOf(pass'.renders)
          IN  /\ shown.a = <<k>>
              /\ shown.b \in 0 .. (ENC_COUNT - 1)
              /\ shown.b = IF pass.lastMsg[k] = -1 THEN 0
                           ELSE (pass.lastMsg[k] + 1) % ENC_COUNT
              /\ encIndex'[k] = (encIndex[k] + 1) % 256
              /\ \A j \in Categories : j # k => encIndex'[j] = encIndex[j]]_vars

\* The cursor of category 0 has wrapped from 255 to 0 and the category has
\* been displayed again, with message index 0 after 1, a display of
\* category 4 having come in between.
C20_Witness ==
  /\ pass.accepted
  /\ pass.inf.index = 0
  /\ encIndex[0] = 1
  /\ encIndex[4] = 1
  /\ pass.lastMsg[0] = 0
  /\ pass.lastMsg[4] = 0
  /\ totalStrokes < 3

\* The display at the wrap: cursor 255 shows message index 1.
C20_CursorWrapped ==
  /\ pass.accepted
  /\ pass.inf.index = 0
  /\ encIndex[0] = 0
  /\ pass.lastMsg[0] = 1

\* The confidence threshold the documentation states (0.75), in hundredths.
DOCUMENTED_CONF_THRESH == 75

\* C21: a detection is accepted only when the confidence of the argmax label
\* is above 0.75; no stroke is counted and no flash is shown for a result
\* whose confidence is 0.75 or lower.
C21_AcceptOnlyAboveDocumented ==
  pass.accepted => pass.inf.confidence > DOCUMENTED_CONF_THRESH

\* C22: a pass in FLASH that accepts a classification sets flashStart to its
\* own time and so stays in FLASH; a pass in FLASH ends in FLASH when less
\* than FLASH_DURATION_MS has passed since the last accepted classification
\* and in MAIN otherwise; nothing else bounds the stay, and the time since
\* FLASH was entered is never less than the time since the last acceptance.
C22_FlashExtendsWithoutBound ==
  [][currentState = STATE_FLASH =>
       /\ flashStart' = IF pass'.accepted THEN now' ELSE flashStart
       /\ currentState' =
            IF Elapsed(now', flashStart') < FLASH_DURATION_MS
            THEN STATE_FLASH ELSE STATE_MAIN
       /\ currentState' = STATE_FLASH =>
            /\ pass'.flashSince = pass.flashSince
            /\ pass'.flashSince <= flashStart'
            /\ Elapsed(now', flashStart') <= Elapsed(now', pass'.flashSince)]_vars

\* The state has been FLASH for longer than FLASH_DURATION_MS and is FLASH
\* still: a second classification was accepted before the first flash ran
\* out.
C22_Witness ==
  /\ currentState = STATE_FLASH
  /\ pass.state = STATE_FLASH
  /\ Elapsed(now, pass.flashSince) > FLASH_DURATION_MS
  /\ Elapsed(now, flashStart) < FLASH_DURATION_MS
  /\ Elapsed(flashStart, pass.flashSince) < FLASH_DURATION_MS

\* FLASH_DURATION_MS after an acceptance that extended the flash, with
\* nothing accepted since, the state is MAIN again.
C22_ReturnedAfterExtension ==
  /\ pass.state = STATE_FLASH
  /\ ~pass.accepted
  /\ pass.flashAge = FLASH_DURATION_MS
  /\ totalStrokes >= 2
  /\ currentState = STATE_MAIN

\* The state changes of the state flow.
Transitions ==
  {<<STATE_OPENING, STATE_MAIN>>, <<STATE_MAIN, STATE_FLASH>>,
   <<STATE_MAIN, STATE_IDLE>>, <<STATE_FLASH, STATE_MAIN>>,
   <<STATE_IDLE, STATE_FLASH>>}

\* C23: currentState holds one of the four states and changes only by
\* OPENING->MAIN, which setup() does and no pass of loop() follows with the
\* state OPENING again, MAIN->FLASH, MAIN->IDLE, FLASH->MAIN and
\* IDLE->FLASH; IDLE is left only by a pass that accepts a classification,
\* and FLASH is never followed by IDLE.
C23_StateFlow ==
  [][/\ currentState' \in State
     /\ currentState' # currentState =>
          <<currentState, currentState'>> \in Transitions
     /\ currentState' # STATE_OPENING
     /\ currentState = STATE_OPENING => pass = NoPass /\ ticks = 0
     /\ (currentState = STATE_IDLE /\ currentState' # STATE_IDLE) =>
          pass'.accepted /\ currentState' = STATE_FLASH
     /\ (currentState = STATE_IDLE /\ ~pass'.accepted) =>
          currentState' = STATE_IDLE
     /\ currentState = STATE_FLASH => currentState' # STATE_IDLE]_vars

\* IDLE, entered from MAIN by the idle timeout, has been left for FLASH by
\* an accepted classification.
C23_Witness ==
  /\ pass.state = STATE_IDLE
  /\ pass.accepted
  /\ currentState = STATE_FLASH
  /\ Elapsed(now, lastStrokeTime) >= IDLE_TIMEOUT_MS

\* IDLE persists while time passes and nothing is accepted.
C23_IdleKept ==
  /\ pass.state = STATE_IDLE
  /\ currentState = STATE_IDLE
  /\ Elapsed(now, lastStrokeTime) >= IDLE_TIMEOUT_MS + 2 * ANIM_INTERVAL_MS

\* MAIN has been entered from FLASH.
C23_FlashToMain == pass.state = STATE_FLASH /\ currentState = STATE_MAIN

\* Whether a pass has drawn the idle screen, and the render command if so.
IdleIn(renders) == \E i \in 1 .. Len(renders) : renders[i].cmd = "idle"

IdleOf(renders) ==
  renders[CHOOSE i \in 1 .. Len(renders) : renders[i].cmd = "idle"]

\* C28: in IDLE the idle screen is drawn only by a pass at least
\* ANIM_INTERVAL_MS after the previous idle redraw or after IDLE was entered,
\* and an idle redraw that follows an idle redraw shows the other animation
\* phase than that one (balls up after base, base after up).
C28_IdleRedrawAlternates ==
  [][IdleIn(pass'.renders) =>
       /\ currentState = STATE_IDLE
       /\ Elapsed(now', lastIdleAnim) >= ANIM_INTERVAL_MS
       /\ display.cmd = "idle" => IdleOf(pass'.renders).b # display.b]_vars

\* C30: in every state totalStrokes is the sum of the five category
\* counters, whichever label 0..4 has been accepted and in whichever state.
C30_TotalIsSumOfCategories ==
  totalStrokes =
    countBHdrive + countBHsmash + countFHdrive + countFHloop + countFHsmash

(***************************************************************************)
(* Properties of the data-collection sketch                                *)
(***************************************************************************)
\* The samples of the data lines of a transmission, in the order sent.
LinesOf(sent) == [n \in 1 .. (Len(sent) - 2) |-> sent[n + 1].b]

\* C24: every transmitted swing record carries, oldest first, the
\* PRE_TRIGGER_SAMPLES samples stored immediately before the trigger sample,
\* the trigger sample and the samples stored after it, each line a later
\* sample than the line before it (checked for triggers that have
\* PRE_TRIGGER_SAMPLES samples before them, are transmitted in the
\* connection they were detected in and are followed by a sample in every
\* sample interval).
C24_WindowInOrder ==
  (/\ step.transmitted
   /\ trigger.sample > PRE_TRIGGER_SAMPLES
   /\ trigger.connection = connections
   /\ collected = trigger.sample + POST_TRIGGER_SAMPLES) =>
    /\ LinesOf(step.sent)[1] = trigger.sample - PRE_TRIGGER_SAMPLES
    /\ LinesOf(step.sent)[PRE_TRIGGER_SAMPLES + 1] = trigger.sample
    /\ \A n \in 1 .. (Len(LinesOf(step.sent)) - 1) :
         LinesOf(step.sent)[n] < LinesOf(step.sent)[n + 1]

\* C25: a trigger fires only in a pass that stores a sample while the device
\* is connected, no capture is pending and more than COOLDOWN_MS has passed
\* since lastSwingTime, the time of the previous trigger, and only on a
\* sample whose acceleration magnitude is above ACCEL_THRESHOLD and whose
\* angular-rate magnitude is above GYRO_THRESHOLD; any trigger is more than
\* COOLDOWN_MS after the one before it.
C25_TriggerConditions ==
  [][step'.triggered =>
       /\ step'.sampled
       /\ bleConnected'
       /\ ~swingDetected
       /\ step'.time - lastSwingTime > COOLDOWN_MS
       /\ SquaredMagnitude(step'.motion.acc) > ACCEL_THRESHOLD * ACCEL_THRESHOLD
       /\ SquaredMagnitude(step'.motion.gyr) > GYRO_THRESHOLD * GYRO_THRESHOLD
       /\ trigger.sample > 0 =>
            /\ lastSwingTime = trigger.time
            /\ trigger'.time - trigger.time > COOLDOWN_MS
       /\ lastSwingTime' = trigger'.time
       /\ trigger'.time = step'.time]_vars

\* A second trigger has fired in a connection, after the first swing was
\* transmitted.
C25_Witness ==
  /\ step.triggered
  /\ swingDetected
  /\ swingCount = 1
  /\ trigger.sample > POST_TRIGGER_SAMPLES

\* A connected sample with the acceleration exactly at its threshold has not
\* triggered, nor has one with the rotation exactly at its threshold.
C25_AccelAtThresholdIgnored ==
  step.motion = AccelAtThreshold /\ ~step.triggered /\ bleConnected

C25_GyroAtThresholdIgnored ==
  step.motion = GyroAtThreshold /\ ~step.triggered /\ bleConnected

\* C26: a pass transmits only when it stores a sample while connected with a
\* capture pending whose trigger is at least POST_TRIGGER_MS old, and every
\* such pass transmits, so that the transmission is at the first such
\* sample; the transmission ends the capture; while a capture is pending no
\* trigger fires; swingCount is raised by 1 by a transmission, set to 0 by a
\* connection and changed by nothing else.
C26_OneTransmissionPerTrigger ==
  [][/\ step'.transmitted <=>
          /\ step'.sampled
          /\ bleConnected'
          /\ swingDetected
          /\ step'.time - triggerTime >= POST_TRIGGER_MS
     /\ step'.transmitted => ~swingDetected' /\ ~step'.triggered
     /\ swingDetected =>
          /\ ~step'.triggered
          /\ trigger' = trigger
          /\ triggerTime' = triggerTime
          /\ ~step'.transmitted => swingDetected'
     /\ swingCount' = (IF step'.connected THEN 0 ELSE swingCount)
                      + (IF step'.transmitted THEN 1 ELSE 0)]_vars

\* A swing has been transmitted exactly POST_TRIGGER_MS after its trigger, in
\* the connection it was detected in.
C26_Witness ==
  /\ step.transmitted
  /\ step.time - triggerTime = POST_TRIGGER_MS
  /\ trigger.connection = connections
  /\ swingCount = 1
  /\ ~swingDetected

\* A swing has been transmitted later than that, the IMU having had no
\* reading when POST_TRIGGER_MS had passed.
C26_TransmittedLate ==
  /\ step.transmitted
  /\ step.time - triggerTime > POST_TRIGGER_MS
  /\ trigger.connection = connections

\* C27: the values a transmitting pass writes are, in this order, the
\* header with swingCount + 1 and triggerTime, TOTAL_SAMPLES data lines with
\* the relative times 0, SAMPLE_INTERVAL_MS, 2 * SAMPLE_INTERVAL_MS, ..., and
\* END_SWING, and nothing else; no sample is stored while they are written
\* (every line holds a sample stored by then, and the next sample is due as
\* soon as the pass ends); the number in the header is the number of
\* transmissions since the connection was made: 1, 2, 3, ...
C27_RecordFormat ==
  [][step'.transmitted =>
       /\ Len(step'.sent) = TOTAL_SAMPLES + 2
       /\ step'.sent[1] =
            [kind |-> "header",
             a |-> (IF step'.connected THEN 0 ELSE swingCount) + 1,
             b |-> triggerTime]
       /\ \A n \in 1 .. TOTAL_SAMPLES :
            /\ step'.sent[n + 1].kind = "data"
            /\ step'.sent[n + 1].a = (n - 1) * SAMPLE_INTERVAL_MS
            /\ step'.sent[n + 1].b <= collected'
       /\ step'.sent[TOTAL_SAMPLES + 2].kind = "END_SWING"
       /\ step'.sent[1].a = step'.nth
       /\ step'.nth = (IF step'.connected THEN 0 ELSE step.nth) + 1
       /\ collected' = collected + 1
       /\ lastSampleTime' = step'.time
       /\ millis' = step'.time + HEADER_DELAY_MS + TOTAL_SAMPLES * LINE_DELAY_MS]_vars

\* The second swing of a connection has been transmitted, with the number 2.
C27_Witness ==
  /\ step.transmitted
  /\ step.nth = 2
  /\ step.sent[1].a = 2
  /\ swingCount = 2
  /\ connections = 1

\* C29: a swing record is transmitted only in the connection in which its
\* trigger was detected.
C29_TransmittedInOwnConnection ==
  step.transmitted => trigger.connection = connections

====
